---- MODULE Spec2Model ----
(***************************************************************************)
(* Model of the syllabus-builder backend (src/main.py): the three          *)
(* collections of the document store, the auth routes, the syllabus        *)
(* routes and the outline generator.                                       *)
(*                                                                         *)
(* Python strings are sequences of one-character strings.  An Optional     *)
(* value is None (the empty tuple) or Some(v) (the one-element tuple).     *)
(* Every store round trip is atomic.  register is modelled in two steps    *)
(* (its find_one, then its inserts) because other requests can run         *)
(* between them; the other handlers read only documents that are never     *)
(* modified, so each is one step.  InsertSpec takes register's two inserts *)
(* as separate steps, ChatSpec draws every ChatRequest body, ChatPairSpec  *)
(* keeps an earlier answer of ai_chat, and HeaderSpec draws every          *)
(* Authorization header value.                                             *)
(***************************************************************************)
EXTENDS Naturals, Integers, Sequences, FiniteSets, TLC

(* ------------------------------ bounds -------------------------------- *)
MaxUsers == 2
MaxLogins == 1
MaxSyllabi == 2
MaxTicks == 1
MaxWorkers == 2

(* --------------------------- program constants ------------------------ *)
OidHexLen == 24
SessionDays == 30
OutlineMin == 8
OutlineMax == 12
OutlineBase == 4
OutlineMod == 9

None == << >>
Some(v) == << v >>

(* ------------------------------ strings ------------------------------- *)
Whitespace == {" ", "\t", "\n"}

UpperChars == <<"A", "B", "C", "D", "E", "F">>
LowerChars == <<"a", "b", "c", "d", "e", "f">>

\* str.lower(), one character
LowerChar(c) ==
  IF \E i \in DOMAIN UpperChars : UpperChars[i] = c
  THEN LowerChars[CHOOSE i \in DOMAIN UpperChars : UpperChars[i] = c]
  ELSE c

\* str.lower()
Lower(s) == [i \in DOMAIN s |-> LowerChar(s[i])]

RECURSIVE LStrip(_)
LStrip(s) ==
  IF s # << >> /\ Head(s) \in Whitespace THEN LStrip(Tail(s)) ELSE s

RECURSIVE RStrip(_)
RStrip(s) ==
  IF s # << >> /\ s[Len(s)] \in Whitespace
  THEN RStrip(SubSeq(s, 1, Len(s) - 1))
  ELSE s

\* str.strip()
Strip(s) == RStrip(LStrip(s))

\* str.replace(pat, ""): every non-overlapping occurrence, left to right
RECURSIVE Remove(_, _)
Remove(s, pat) ==
  IF Len(s) < Len(pat) THEN s
  ELSE IF SubSeq(s, 1, Len(pat)) = pat
       THEN Remove(SubSeq(s, Len(pat) + 1, Len(s)), pat)
       ELSE << Head(s) >> \o Remove(Tail(s), pat)

\* sep.join(parts)
RECURSIVE Join(_, _)
Join(parts, sep) ==
  IF parts = << >> THEN << >>
  ELSE IF Len(parts) = 1 THEN parts[1]
  ELSE parts[1] \o sep \o Join(Tail(parts), sep)

Digits == <<"0", "1", "2", "3", "4", "5", "6", "7", "8", "9">>

\* str(n) for a natural n
RECURSIVE IntStr(_)
IntStr(n) ==
  IF n < 10 THEN << Digits[n + 1] >>
  ELSE IntStr(n \div 10) \o << Digits[(n % 10) + 1] >>

\* zero-padded decimal of width w
RECURSIVE Pad(_, _)
Pad(n, w) ==
  IF w = 0 THEN << >>
  ELSE Pad(n \div 10, w - 1) \o << Digits[(n % 10) + 1] >>

\* code points of the characters that occur in timestamps
Ord(c) ==
  CASE c = "+" -> 43
    [] c = "-" -> 45
    [] c = "." -> 46
    [] c = "0" -> 48
    [] c = "1" -> 49
    [] c = "2" -> 50
    [] c = "3" -> 51
    [] c = "4" -> 52
    [] c = "5" -> 53
    [] c = "6" -> 54
    [] c = "7" -> 55
    [] c = "8" -> 56
    [] c = "9" -> 57
    [] c = ":" -> 58
    [] c = "T" -> 84

\* binary string order, the order the store sorts string fields by
RECURSIVE StrLess(_, _)
StrLess(a, b) ==
  IF b = << >> THEN FALSE
  ELSE IF a = << >> THEN TRUE
  ELSE IF Head(a) = Head(b) THEN StrLess(Tail(a), Tail(b))
  ELSE Ord(Head(a)) < Ord(Head(b))

(* ------------------------------- time --------------------------------- *)
\* A point in time is <<seconds, microseconds>> since 2026-01-01T00:00:00Z.
MicrosPerSec == 1000000
SecsPerDay == 86400

MonthDays == <<31, 28, 31, 30, 31, 30, 31, 31, 30, 31, 30, 31>>

\* <<month, day of month>> of the 0-based day d of the year, from month m on
RECURSIVE MonthOf(_, _)
MonthOf(d, m) ==
  IF d < MonthDays[m] THEN << m, d + 1 >> ELSE MonthOf(d - MonthDays[m], m + 1)

\* datetime + timedelta(days = n)
AddDays(t, n) == << t[1] + n * SecsPerDay, t[2] >>

\* datetime.isoformat() of an aware UTC datetime: the fraction is printed
\* only when the microsecond is not zero
IsoFormat(t) ==
  LET md == MonthOf(t[1] \div SecsPerDay, 1)
      sod == t[1] % SecsPerDay
  IN  <<"2", "0", "2", "6", "-">> \o Pad(md[1], 2) \o <<"-">> \o Pad(md[2], 2)
      \o <<"T">> \o Pad(sod \div 3600, 2) \o <<":">>
      \o Pad((sod % 3600) \div 60, 2) \o <<":">> \o Pad(sod % 60, 2)
      \o (IF t[2] = 0 THEN << >> ELSE <<".">> \o Pad(t[2], 6))
      \o <<"+", "0", "0", ":", "0", "0">>

\* chronological order of two points in time
TimeLess(t, u) == t[1] < u[1] \/ (t[1] = u[1] /\ t[2] < u[2])

(* ------------------------------ ObjectId ------------------------------ *)
\* An ObjectId is the 96-bit number it holds.
HexLower == <<"0", "1", "2", "3", "4", "5", "6", "7", "8", "9",
              "a", "b", "c", "d", "e", "f">>
HexChars == {HexLower[i] : i \in DOMAIN HexLower}
             \cup {UpperChars[i] : i \in DOMAIN UpperChars}

HexValues ==
  [c \in HexChars |->
     (CHOOSE i \in DOMAIN HexLower : HexLower[i] = LowerChar(c)) - 1]
HexVal(c) == HexValues[c]

\* the w lowest hexadecimal digits of n, in lower case
RECURSIVE HexStr(_, _)
HexStr(n, w) ==
  IF w = 0 THEN << >>
  ELSE HexStr(n \div 16, w - 1) \o << HexLower[(n % 16) + 1] >>

\* The identifiers the store generates are unique over all collections:
\* the n-th one of collection c (1 user, 2 session, 3 syllabus) is 16c + n.
MaxPerCollection == 15
NewOid(c, n) == 16 * c + n

\* str(ObjectId), by table for the identifiers the store generates
OidStrings == [n \in 0..(16 * 3 + MaxPerCollection) |-> HexStr(n, OidHexLen)]
oid_str(oid) == OidStrings[oid]

\* bson.ObjectId.is_valid for a str
OidValid(s) == Len(s) = OidHexLen /\ \A i \in DOMAIN s : s[i] \in HexChars

\* the number the first k hexadecimal digits of s stand for
RECURSIVE HexNum(_, _)
HexNum(s, k) ==
  IF k = 0 THEN 0 ELSE 16 * HexNum(s, k - 1) + HexVal(s[k])

\* ObjectId(str), defined when OidValid(s)
ObjectId(s) == HexNum(s, Len(s))

(* ------------------------------ hashing ------------------------------- *)
\* hashlib.sha256(x).hexdigest(), taken as collision free
Sha256Hex(x) == << "sha256", x >>

\* hash_password with a given salt (an Optional string); fresh is the
\* value secrets.token_hex(16) would return
hash_password(password, salt, fresh) ==
  LET s == IF salt = None \/ salt[1] = << >> THEN fresh ELSE salt[1]
  IN  << s, Sha256Hex(s \o password) >>

(* ------------------------------- inputs ------------------------------- *)
Names == { <<"n">> }
Emails == { <<"a">>, <<"A">>, <<"b">> }
Passwords == { <<"p">>, <<"q">> }
\* passwords users register with
RegPasswords == { <<"p">> }
\* the i-th value secrets.token_hex returns; the values are random, taken
\* as never repeating
Salt(i) == <<"5", HexLower[i + 1]>>

Bearer == <<"B", "e", "a", "r", "e", "r", " ">>

\* the i-th value secrets.token_urlsafe returns; the values are random,
\* taken as never repeating
Token(i) == <<"t", Digits[i + 1]>>
UnknownToken == <<"z", "z">>

\* how far the wall clock moves between two readings
TickSteps == { << 31 * SecsPerDay, 1 >> }

\* SyllabusCreateRequest bodies
Payloads ==
  { [title |-> <<"T">>, course_code |-> Some(<<"c">>), description |-> None,
     objectives |-> << <<"o">> >>, level |-> Some(<<"l">>),
     subject |-> None, duration_weeks |-> Some(8), weeks |-> << >>] }

\* the fields SyllabusCreateRequest declares
SyllabusFields ==
  { "title", "course_code", "description", "objectives", "level", "subject",
    "duration_weeks", "weeks" }

\* JSON bodies sent to POST /syllabi: the declared fields alone, and the
\* same with an owner_id naming the first user
Bodies ==
  Payloads \cup { [owner_id |-> oid_str(NewOid(1, 1))] @@ p : p \in Payloads }

\* validation of a body as SyllabusCreateRequest: fields the model does not
\* declare are dropped
SyllabusCreateRequest(body) == [f \in SyllabusFields |-> body[f]]

\* syllabus_id path parameters that are no identifier
MalformedIds == { <<"x">> }

(* ------------------------------- state -------------------------------- *)
VARIABLES
  user,        \* db["user"], in insertion order
  session,     \* db["session"], in insertion order
  syllabus,    \* db["syllabus"], in insertion order
  issued,      \* tokens token_urlsafe has returned
  clock,       \* the wall clock
  ticks,       \* clock movements so far
  pending,     \* per worker: a register request between its check and insert
  registered,  \* history: [email, password, id] of every successful register
  creator,     \* history: syllabus id -> id of the user its request resolved to
  earlier,     \* history: the first ai_chat request answered 200, where recorded
  last         \* the request answered last and its response

vars == << user, session, syllabus, issued, clock, ticks, pending,
           registered, creator, earlier, last >>

db == << user, session, syllabus >>

Workers == 1..MaxWorkers

\* no response is on its way to a client
Idle == [op |-> "none", status |-> 0, detail |-> "", body |-> None]

Init ==
  /\ user = << >>
  /\ session = << >>
  /\ syllabus = << >>
  /\ issued = {}
  /\ clock = << 0, 0 >>
  /\ ticks = 0
  /\ pending = [w \in Workers |-> None]
  /\ registered = {}
  /\ creator = << >>
  /\ earlier = None
  /\ last = Idle

\* datetime.now(timezone.utc).  A document keeps the time read, and
\* IsoFormat gives the string the code stores wherever that string is
\* compared or returned.
now == clock

\* find({"email": email}): the indices of the documents that match
FindByEmail(coll, email) == { i \in DOMAIN coll : coll[i].email = email }

\* find({"token": token})
SessionsWith(coll, token) == { i \in DOMAIN coll : coll[i].token = token }

\* find({"_id": oid})
FindById(coll, oid) == { i \in DOMAIN coll : coll[i].oid = oid }

\* find({"owner_id": owner_id})
FindByOwner(coll, owner_id) ==
  { i \in DOMAIN coll : coll[i].owner_id = owner_id }

\* a lookup by identifier that leaves the owner out of the filter
FindByIdOwner_AnyOwner(coll, oid, owner_id) == FindById(coll, oid)

\* find({"_id": oid, "owner_id": owner_id})
FindByIdOwner(coll, oid, owner_id) ==
  FindById(coll, oid) \cap FindByOwner(coll, owner_id)

\* HTTPException(status_code, detail)
HTTPException(status, detail) ==
  [status |-> status, detail |-> detail, body |-> None]

Ok(body) == [status |-> 200, detail |-> "", body |-> body]

(* --------------------------- auth dependency -------------------------- *)
\* the token both get_current_user and logout look the session up by
BearerToken(authorization) == Strip(Remove(authorization, Bearer))

\* get_current_user against collections s (sessions) and u (users)
CurrentUserIn(authorization, s, u) ==
  IF authorization = None \/ authorization[1] = << >>
  THEN HTTPException(401, "Missing authorization header")
  ELSE
    LET token == BearerToken(authorization[1])
        ss == SessionsWith(s, token)
    IN  IF ss = {}
        THEN HTTPException(401, "Invalid session token")
        ELSE
          LET sd == s[CHOOSE i \in ss : \A j \in ss : i <= j]
              us == FindById(u, ObjectId(sd.user_id))
          IN  IF us = {}
              THEN HTTPException(401, "User not found")
              ELSE
                LET ud == u[CHOOSE i \in us : \A j \in us : i <= j]
                IN  Ok([id |-> oid_str(ud.oid), name |-> ud.name,
                        email |-> ud.email,
                        password_salt |-> ud.password_salt,
                        password_hash |-> ud.password_hash,
                        created_at |-> ud.created_at,
                        updated_at |-> ud.updated_at])

\* a dependency that lets a token of no session through as the first user
get_current_user_AcceptsUnknown(authorization) ==
  IF /\ authorization # None
     /\ authorization[1] # << >>
     /\ SessionsWith(session, BearerToken(authorization[1])) = {}
     /\ user # << >>
  THEN Ok([id |-> oid_str(user[1].oid), name |-> user[1].name,
           email |-> user[1].email,
           password_salt |-> user[1].password_salt,
           password_hash |-> user[1].password_hash,
           created_at |-> user[1].created_at,
           updated_at |-> user[1].updated_at])
  ELSE CurrentUserIn(authorization, session, user)

\* a dependency that turns a session past its expires_at away
get_current_user_ChecksExpiry(authorization) ==
  IF /\ authorization # None
     /\ authorization[1] # << >>
     /\ \E i \in SessionsWith(session, BearerToken(authorization[1])) :
          TimeLess(session[i].expires_at, now)
  THEN HTTPException(401, "Session expired")
  ELSE CurrentUserIn(authorization, session, user)

get_current_user(authorization) == CurrentUserIn(authorization, session, user)

\* a session document that refers to itself
NewSession_OwnId(oid, user_id, token) ==
  [oid |-> oid, user_id |-> oid_str(oid), token |-> token,
   user_agent |-> None, created_at |-> now,
   expires_at |-> AddDays(now, SessionDays)]

\* the session document register and login insert
NewSession(oid, user_id, token) ==
  [oid |-> oid, user_id |-> user_id, token |-> token, user_agent |-> None,
   created_at |-> now,
   expires_at |-> AddDays(now, SessionDays)]

\* Authorization header values a client presents: none, an empty one, a
\* token no session was issued with, every token issued so far with the
\* Bearer prefix, and the first one without it
Headers ==
  { None, Some(<< >>), Some(Bearer \o UnknownToken) }
    \cup { Some(Bearer \o t) : t \in issued }
    \cup { Some(t) : t \in issued \cap { Token(1) } }

\* Authorization header values around an issued token: those of Headers,
\* the token with the prefix twice, with a character before the prefix, with
\* the prefix after it, and with whitespace around it
AllHeaders ==
  Headers
    \cup { Some(Bearer \o Bearer \o t) : t \in issued }
    \cup { Some(<<"x">> \o Bearer \o t) : t \in issued }
    \cup { Some(t \o Bearer) : t \in issued }
    \cup { Some(<<" ">> \o t \o <<" ">>) : t \in issued }

\* syllabus_id path parameters a client presents: the identifier of every
\* stored syllabus, an identifier of no syllabus (the first user's), and
\* strings that are no identifier
PathIds ==
  { oid_str(syllabus[i].oid) : i \in DOMAIN syllabus }
    \cup { oid_str(NewOid(1, 1)) } \cup MalformedIds

NumPending == Cardinality({ w \in Workers : pending[w] # None })

(* ------------------------------ the clock ----------------------------- *)
Tick ==
  /\ last = Idle
  /\ ticks < MaxTicks
  /\ \E d \in TickSteps :
       clock' = << clock[1] + d[1] + (clock[2] + d[2]) \div MicrosPerSec,
                   (clock[2] + d[2]) % MicrosPerSec >>
  /\ ticks' = ticks + 1
  /\ UNCHANGED << user, session, syllabus, issued, pending,
                  registered, creator, earlier, last >>

(* ----------------------------- auth routes ---------------------------- *)
\* an existence check that compares the email as given
RegisterCheck_CaseSensitive(w, name, email, password) ==
  /\ last = Idle
  /\ pending[w] = None
  /\ \A v \in Workers : v < w => pending[v] # None
  /\ Len(user) + NumPending < MaxUsers
  /\ IF FindByEmail(user, email) # {}
     THEN /\ last' = [op |-> "register", email |-> email]
                     @@ HTTPException(400, "Email already registered")
          /\ UNCHANGED pending
     ELSE /\ pending' = [pending EXCEPT ![w] =
                 Some([name |-> name, email |-> email, password |-> password])]
          /\ UNCHANGED last
  /\ UNCHANGED << user, session, syllabus, issued, clock, ticks,
                  registered, creator, earlier >>

\* register, lines 165-167: the existence check
RegisterCheck(w, name, email, password) ==
  /\ last = Idle
  /\ pending[w] = None
  /\ \A v \in Workers : v < w => pending[v] # None
  /\ Len(user) + NumPending < MaxUsers
  /\ IF FindByEmail(user, Lower(email)) # {}
     THEN /\ last' = [op |-> "register", email |-> email]
                     @@ HTTPException(400, "Email already registered")
          /\ UNCHANGED pending
     ELSE /\ pending' = [pending EXCEPT ![w] =
                 Some([name |-> name, email |-> email, password |-> password])]
          /\ UNCHANGED last
  /\ UNCHANGED << user, session, syllabus, issued, clock, ticks,
                  registered, creator, earlier >>

\* inserts that look the email up once more and give way to a user stored
\* since the check
RegisterInsert_Rechecks(w) ==
  /\ last = Idle
  /\ pending[w] # None
  /\ LET fresh == Salt(Len(user) + 1)
         token == Token(Cardinality(issued) + 1)
         req == pending[w][1]
         sh == hash_password(req.password, None, fresh)
         uoid == NewOid(1, Len(user) + 1)
         user_id == oid_str(uoid)
         user_doc == [oid |-> uoid, name |-> req.name,
                      email |-> Lower(req.email),
                      password_salt |-> sh[1], password_hash |-> sh[2],
                      created_at |-> now, updated_at |-> now]
     IN  IF FindByEmail(user, Lower(req.email)) # {}
         THEN /\ last' = [op |-> "register", email |-> req.email]
                         @@ HTTPException(400, "Email already registered")
              /\ UNCHANGED << user, session, issued, registered >>
         ELSE /\ user' = Append(user, user_doc)
              /\ session' = Append(session,
                              NewSession(NewOid(2, Cardinality(issued) + 1),
                                         user_id, token))
              /\ issued' = issued \cup { token }
              /\ registered' = registered \cup
                    { [email |-> req.email, password |-> req.password,
                       id |-> user_id] }
              /\ last' = [op |-> "register", email |-> req.email]
                         @@ Ok([token |-> token,
                                user |-> [id |-> user_id, name |-> req.name,
                                          email |-> Lower(req.email)]])
  /\ pending' = [pending EXCEPT ![w] = None]
  /\ UNCHANGED << syllabus, clock, ticks, creator, earlier >>

\* inserts that write over a user stored under the email since the check
RegisterInsert_Upsert(w) ==
  /\ last = Idle
  /\ pending[w] # None
  /\ LET fresh == Salt(Len(user) + 1)
         token == Token(Cardinality(issued) + 1)
         req == pending[w][1]
         sh == hash_password(req.password, None, fresh)
         same == FindByEmail(user, Lower(req.email))
         uoid == IF same = {} THEN NewOid(1, Len(user) + 1)
                 ELSE user[CHOOSE i \in same : TRUE].oid
         user_id == oid_str(uoid)
         user_doc == [oid |-> uoid, name |-> req.name,
                      email |-> Lower(req.email),
                      password_salt |-> sh[1], password_hash |-> sh[2],
                      created_at |-> now, updated_at |-> now]
     IN  /\ user' = IF same = {} THEN Append(user, user_doc)
                    ELSE [i \in DOMAIN user |->
                            IF i \in same THEN user_doc ELSE user[i]]
         /\ session' = Append(session,
                         NewSession(NewOid(2, Cardinality(issued) + 1),
                                    user_id, token))
         /\ issued' = issued \cup { token }
         /\ registered' = registered \cup
               { [email |-> req.email, password |-> req.password,
                  id |-> user_id] }
         /\ last' = [op |-> "register", email |-> req.email]
                    @@ Ok([token |-> token,
                           user |-> [id |-> user_id, name |-> req.name,
                                     email |-> Lower(req.email)]])
  /\ pending' = [pending EXCEPT ![w] = None]
  /\ UNCHANGED << syllabus, clock, ticks, creator, earlier >>

\* register, lines 169-193: the two inserts and the response
RegisterInsert(w) ==
  /\ last = Idle
  /\ pending[w] # None
  /\ LET fresh == Salt(Len(user) + 1)
         token == Token(Cardinality(issued) + 1)
     IN
       LET req == pending[w][1]
           sh == hash_password(req.password, None, fresh)
           uoid == NewOid(1, Len(user) + 1)
           user_id == oid_str(uoid)
           user_doc == [oid |-> uoid, name |-> req.name,
                        email |-> Lower(req.email),
                        password_salt |-> sh[1], password_hash |-> sh[2],
                        created_at |-> now, updated_at |-> now]
       IN  /\ user' = Append(user, user_doc)
           /\ session' = Append(session,
                           NewSession(NewOid(2, Cardinality(issued) + 1), user_id,
                                      token))
           /\ issued' = issued \cup { token }
           /\ registered' = registered \cup
                 { [email |-> req.email, password |-> req.password,
                    id |-> user_id] }
           /\ last' = [op |-> "register", email |-> req.email]
                      @@ Ok([token |-> token,
                             user |-> [id |-> user_id, name |-> req.name,
                                       email |-> Lower(req.email)]])
  /\ pending' = [pending EXCEPT ![w] = None]
  /\ UNCHANGED << syllabus, clock, ticks, creator, earlier >>

\* register, lines 169-179, as a step of its own: the user insert.  The
\* request keeps the identifier of its user for the session insert.
RegisterInsertUser(w) ==
  /\ last = Idle
  /\ pending[w] # None
  /\ "user_id" \notin DOMAIN pending[w][1]
  /\ LET req == pending[w][1]
         sh == hash_password(req.password, None, Salt(Len(user) + 1))
         uoid == NewOid(1, Len(user) + 1)
         user_doc == [oid |-> uoid, name |-> req.name,
                      email |-> Lower(req.email),
                      password_salt |-> sh[1], password_hash |-> sh[2],
                      created_at |-> now, updated_at |-> now]
     IN  /\ user' = Append(user, user_doc)
         /\ pending' = [pending EXCEPT ![w] =
                          Some([user_id |-> oid_str(uoid)] @@ req)]
  /\ UNCHANGED << session, syllabus, issued, clock, ticks, registered,
                  creator, earlier, last >>

\* register, lines 181-193, as a step of its own: the session insert and
\* the response
RegisterInsertSession(w) ==
  /\ last = Idle
  /\ pending[w] # None
  /\ "user_id" \in DOMAIN pending[w][1]
  /\ LET req == pending[w][1]
         token == Token(Cardinality(issued) + 1)
     IN  /\ session' = Append(session,
                         NewSession(NewOid(2, Cardinality(issued) + 1),
                                    req.user_id, token))
         /\ issued' = issued \cup { token }
         /\ registered' = registered \cup
               { [email |-> req.email, password |-> req.password,
                  id |-> req.user_id] }
         /\ last' = [op |-> "register", email |-> req.email]
                    @@ Ok([token |-> token,
                           user |-> [id |-> req.user_id, name |-> req.name,
                                     email |-> Lower(req.email)]])
  /\ pending' = [pending EXCEPT ![w] = None]
  /\ UNCHANGED << user, syllabus, clock, ticks, creator, earlier >>

\* a login that replaces the sessions issued before
LoginWith_RevokesOld(i, email, password) ==
  IF i = 0
  THEN /\ last' = [op |-> "login", email |-> email, password |-> password]
                  @@ HTTPException(400, "Invalid credentials")
       /\ UNCHANGED << session, issued >>
  ELSE
    LET sh == hash_password(password, Some(user[i].password_salt), << >>)
    IN  IF sh[2] # user[i].password_hash
        THEN /\ last' = [op |-> "login", email |-> email,
                         password |-> password]
                        @@ HTTPException(400, "Invalid credentials")
             /\ UNCHANGED << session, issued >>
        ELSE LET token == Token(Cardinality(issued) + 1) IN
               /\ session' = << NewSession(NewOid(2, Cardinality(issued) + 1),
                                           oid_str(user[i].oid), token) >>
               /\ issued' = issued \cup { token }
               /\ last' = [op |-> "login", email |-> email,
                           password |-> password]
                          @@ Ok([token |-> token,
                                 user |-> [id |-> oid_str(user[i].oid),
                                           name |-> user[i].name,
                                           email |-> user[i].email]])

\* a login that tells an unknown email from a wrong password
LoginWith_DistinctErrors(i, email, password) ==
  IF i = 0
  THEN /\ last' = [op |-> "login", email |-> email, password |-> password]
                  @@ HTTPException(400, "Email not registered")
       /\ UNCHANGED << session, issued >>
  ELSE
    LET sh == hash_password(password, Some(user[i].password_salt), << >>)
    IN  IF sh[2] # user[i].password_hash
        THEN /\ last' = [op |-> "login", email |-> email,
                         password |-> password]
                        @@ HTTPException(400, "Invalid credentials")
             /\ UNCHANGED << session, issued >>
        ELSE LET token == Token(Cardinality(issued) + 1) IN
               /\ session' = Append(session,
                     NewSession(NewOid(2, Cardinality(issued) + 1),
                                oid_str(user[i].oid),
                                token))
               /\ issued' = issued \cup { token }
               /\ last' = [op |-> "login", email |-> email,
                           password |-> password]
                          @@ Ok([token |-> token,
                                 user |-> [id |-> oid_str(user[i].oid),
                                           name |-> user[i].name,
                                           email |-> user[i].email]])

\* a login whose session belongs to the first stored user
LoginWith_FirstUser(i, email, password) ==
  IF i = 0
  THEN /\ last' = [op |-> "login", email |-> email, password |-> password]
                  @@ HTTPException(400, "Invalid credentials")
       /\ UNCHANGED << session, issued >>
  ELSE
    LET sh == hash_password(password, Some(user[i].password_salt), << >>)
    IN  IF sh[2] # user[i].password_hash
        THEN /\ last' = [op |-> "login", email |-> email,
                         password |-> password]
                        @@ HTTPException(400, "Invalid credentials")
             /\ UNCHANGED << session, issued >>
        ELSE LET token == Token(Cardinality(issued) + 1) IN
               /\ session' = Append(session,
                     NewSession(NewOid(2, Cardinality(issued) + 1),
                                oid_str(user[1].oid),
                                token))
               /\ issued' = issued \cup { token }
               /\ last' = [op |-> "login", email |-> email,
                           password |-> password]
                          @@ Ok([token |-> token,
                                 user |-> [id |-> oid_str(user[i].oid),
                                           name |-> user[i].name,
                                           email |-> user[i].email]])

\* the result of login once find_one has returned users[i] (0: no document)
LoginWith(i, email, password) ==
  IF i = 0
  THEN /\ last' = [op |-> "login", email |-> email, password |-> password]
                  @@ HTTPException(400, "Invalid credentials")
       /\ UNCHANGED << session, issued >>
  ELSE
    LET sh == hash_password(password, Some(user[i].password_salt), << >>)
    IN  IF sh[2] # user[i].password_hash
        THEN /\ last' = [op |-> "login", email |-> email,
                         password |-> password]
                        @@ HTTPException(400, "Invalid credentials")
             /\ UNCHANGED << session, issued >>
        ELSE LET token == Token(Cardinality(issued) + 1) IN
               /\ session' = Append(session,
                     NewSession(NewOid(2, Cardinality(issued) + 1),
                                oid_str(user[i].oid),
                                token))
               /\ issued' = issued \cup { token }
               /\ last' = [op |-> "login", email |-> email,
                           password |-> password]
                          @@ Ok([token |-> token,
                                 user |-> [id |-> oid_str(user[i].oid),
                                           name |-> user[i].name,
                                           email |-> user[i].email]])

\* login; find_one returns any one of the documents that match
Login(email, password) ==
  /\ last = Idle
  /\ Cardinality(issued) - Len(user) < MaxLogins
  /\ LET found == FindByEmail(user, Lower(email))
     IN  IF found = {} THEN LoginWith(0, email, password)
         ELSE \E i \in found : LoginWith(i, email, password)
  /\ UNCHANGED << user, syllabus, clock, ticks, pending, registered, creator,
                  earlier >>

\* a delete that empties the collection
DeleteMany_Everything(coll, token) == << >>

\* delete_many({"token": token}): the documents left, in order
DeleteMany(coll, token) == SelectSeq(coll, LAMBDA d : d.token # token)

\* a logout that rejects a header no session matches
Logout_RequiresSession(authorization) ==
  /\ last = Idle
  /\ IF authorization = None \/ authorization[1] = << >>
     THEN /\ UNCHANGED session
          /\ last' = [op |-> "logout", authorization |-> authorization]
                     @@ Ok([ok |-> TRUE])
     ELSE LET token == BearerToken(authorization[1])
          IN  /\ session' = DeleteMany(session, token)
              /\ last' = [op |-> "logout", authorization |-> authorization]
                         @@ (IF SessionsWith(session, token) = {}
                             THEN HTTPException(401, "Invalid session token")
                             ELSE Ok([ok |-> TRUE]))
  /\ UNCHANGED << user, syllabus, issued, clock, ticks, pending,
                  registered, creator, earlier >>

\* logout
Logout(authorization) ==
  /\ last = Idle
  /\ IF authorization = None \/ authorization[1] = << >>
     THEN UNCHANGED session
     ELSE LET token == BearerToken(authorization[1])
          IN  session' = DeleteMany(session, token)
  /\ last' = [op |-> "logout", authorization |-> authorization]
             @@ Ok([ok |-> TRUE])
  /\ UNCHANGED << user, syllabus, issued, clock, ticks, pending,
                  registered, creator, earlier >>

(* --------------------------- syllabus routes -------------------------- *)
\* the fields of a syllabus document that SyllabusResponse keeps
SyllabusResponse(d) ==
  [id |-> oid_str(d.oid), title |-> d.title, course_code |-> d.course_code,
   description |-> d.description, objectives |-> d.objectives,
   level |-> d.level, subject |-> d.subject,
   duration_weeks |-> d.duration_weeks, weeks |-> d.weeks,
   created_at |-> Some(IsoFormat(d.created_at))]

\* the document create_syllabus inserts for an authenticated user
SyllabusDoc(oid, u, payload) ==
  [oid |-> oid, owner_id |-> u.id, title |-> payload.title,
   course_code |-> payload.course_code, description |-> payload.description,
   objectives |-> payload.objectives, level |-> payload.level,
   subject |-> payload.subject, duration_weeks |-> payload.duration_weeks,
   weeks |-> payload.weeks, created_at |-> now, updated_at |-> now]

\* a create_syllabus that lays the body's fields over the document
CreateSyllabus_BodyOverrides(authorization, body) ==
  LET auth == get_current_user(authorization)
      payload == SyllabusCreateRequest(body)
      rq == [op |-> "create_syllabus", authorization |-> authorization,
             json |-> body]
  IN  /\ last = Idle
      /\ IF auth.status # 200
         THEN /\ last' = rq @@ auth
              /\ UNCHANGED << syllabus, creator >>
         ELSE LET doc == SyllabusDoc(NewOid(3, Len(syllabus) + 1), auth.body,
                                     payload)
                  laid == [f \in DOMAIN doc |->
                             IF f \in DOMAIN body THEN body[f] ELSE doc[f]]
              IN  /\ Len(syllabus) < MaxSyllabi
                  /\ syllabus' = Append(syllabus, laid)
                  /\ creator' = Append(creator, auth.body.id)
                  /\ last' = rq @@ Ok(SyllabusResponse(laid))
      /\ UNCHANGED << user, session, issued, clock, ticks, pending,
                      registered, earlier >>

\* create_syllabus
CreateSyllabus(authorization, body) ==
  LET auth == get_current_user(authorization)
      payload == SyllabusCreateRequest(body)
      rq == [op |-> "create_syllabus", authorization |-> authorization,
             json |-> body]
  IN  /\ last = Idle
      /\ IF auth.status # 200
         THEN /\ last' = rq @@ auth
              /\ UNCHANGED << syllabus, creator >>
         ELSE LET doc == SyllabusDoc(NewOid(3, Len(syllabus) + 1), auth.body,
                                     payload)
              IN  /\ Len(syllabus) < MaxSyllabi
                  /\ syllabus' = Append(syllabus, doc)
                     /\ creator' = Append(creator, auth.body.id)
                  /\ last' = rq @@ Ok(SyllabusResponse(doc))
      /\ UNCHANGED << user, session, issued, clock, ticks, pending,
                      registered, earlier >>

\* a sort in ascending order
SortedDesc_Ascending(coll, idx) ==
  { p \in [1..Cardinality(idx) -> idx] :
      /\ \A k, l \in DOMAIN p : k # l => p[k] # p[l]
      /\ \A k, l \in DOMAIN p :
           k < l => ~StrLess(IsoFormat(coll[p[l]].created_at),
                             IsoFormat(coll[p[k]].created_at)) }

\* find(filter).sort("created_at", -1): every arrangement of the matching
\* documents in which created_at never increases; the store leaves the
\* order of documents with equal keys open
SortedDesc(coll, idx) ==
  { p \in [1..Cardinality(idx) -> idx] :
      /\ \A k, l \in DOMAIN p : k # l => p[k] # p[l]
      /\ \A k, l \in DOMAIN p :
           k < l => ~StrLess(IsoFormat(coll[p[k]].created_at),
                             IsoFormat(coll[p[l]].created_at)) }

\* list_syllabi
ListSyllabi(authorization) ==
  LET auth == get_current_user(authorization)
      rq == [op |-> "list_syllabi", authorization |-> authorization]
  IN  /\ last = Idle
      /\ IF auth.status # 200
         THEN last' = rq @@ auth
         ELSE \E items \in SortedDesc(syllabus,
                                      FindByOwner(syllabus, auth.body.id)) :
                last' = rq @@ Ok([k \in DOMAIN items |->
                                    SyllabusResponse(syllabus[items[k]])])
      /\ UNCHANGED << user, session, syllabus, issued, clock,
                      ticks, pending, registered, creator, earlier >>

\* get_syllabus; ObjectId(syllabus_id) raises InvalidId for a string that is
\* no identifier, and nothing handles it
GetSyllabus(authorization, syllabus_id) ==
  LET auth == get_current_user(authorization)
      rq == [op |-> "get_syllabus", authorization |-> authorization,
             syllabus_id |-> syllabus_id]
  IN  /\ last = Idle
      /\ IF auth.status # 200
         THEN last' = rq @@ auth
         ELSE IF ~OidValid(syllabus_id)
         THEN last' = rq @@ HTTPException(500, "Internal Server Error")
         ELSE
           LET found == FindByIdOwner(syllabus, ObjectId(syllabus_id),
                                      auth.body.id)
           IN  IF found = {}
               THEN last' = rq @@ HTTPException(404, "Not found")
               ELSE \E i \in found :
                      last' = rq @@ Ok(SyllabusResponse(syllabus[i]))
      /\ UNCHANGED << user, session, syllabus, issued, clock,
                      ticks, pending, registered, creator, earlier >>

(* -------------------------- outline generator ------------------------- *)
Rep(c, n) == [i \in 1..n |-> c]

\* x or d, for an Optional string x
OrElse(x, d) == IF x = None \/ x[1] = << >> THEN d ELSE x[1]

Min(a, b) == IF a < b THEN a ELSE b
Max(a, b) == IF a < b THEN b ELSE a

\* ChatRequest bodies
ChatTitles == { << >>, <<" ">>, Rep("x", 3), <<" ">> \o Rep("x", 5) }
ChatSubjects == { None, Some(Rep("s", 2)) }
ChatLevels == { None, Some(<<"l", " ">>), Some(Rep("l", 4)), Some(Rep("l", 7)) }
AllChatRequests ==
  { [course_title |-> t, subject |-> sj, level |-> lv, goals |-> << >>,
     constraints |-> None] :
       t \in ChatTitles, sj \in ChatSubjects, lv \in ChatLevels }
    \cup { [course_title |-> Rep("x", 3), subject |-> Some(<< >>),
            level |-> None, goals |-> << <<"g">>, <<"h">> >>,
            constraints |-> Some(<<"k">>)],
           [course_title |-> Rep("x", 3), subject |-> None,
            level |-> None, goals |-> << <<"g">> >>,
            constraints |-> None] }
\* bodies that agree in course_title and level: among them two that differ
\* in goals alone, and three that differ in subject
PairedChatRequests ==
  { r \in AllChatRequests : r.course_title = Rep("x", 3) /\ r.level = None }
\* the bodies drawn where the store is explored in full
ChatRequests ==
  { r \in AllChatRequests : r.constraints # None }

\* the fixed instruction text
base_prompt ==
  << "You are an expert course designer. Given the course title, subject, level, goals, and any constraints, produce a practical syllabus outline with 8-12 weekly topics. Keep topics concise and actionable." >>

\* the composed prompt; literal pieces are one element each
ComposedPrompt(req) ==
  LET parts ==
        << <<"Course Title: ">> \o req.course_title,
           <<"Subject: ">> \o OrElse(req.subject, <<"General">>),
           <<"Level: ">> \o OrElse(req.level, <<"Mixed">>),
           <<"Goals: ">> \o (IF req.goals # << >>
                             THEN Join(req.goals, <<",", " ">>)
                             ELSE <<"N/A">>),
           <<"Constraints: ">> \o OrElse(req.constraints, <<"None">>) >>
  IN  base_prompt \o <<"\n", "\n">> \o Join(parts, <<"\n">>)

\* a seed that keeps its surrounding whitespace
Seed_NoStrip(req) ==
  req.course_title \o OrElse(req.subject, << >>) \o OrElse(req.level, << >>)

\* the seed whose length fixes the number of weeks
Seed(req) ==
  Strip(req.course_title \o OrElse(req.subject, << >>)
          \o OrElse(req.level, << >>))

OutlineCount(req) ==
  Max(OutlineMin, Min(OutlineMax, OutlineBase + (Len(Seed(req)) % OutlineMod)))

Outline(req) ==
  [i \in 1..OutlineCount(req) |->
     <<"Week ">> \o IntStr(i) \o <<": Topic derived from '">>
       \o req.course_title \o <<"' - Part ">> \o IntStr(i)]

\* an ai_chat whose prompt opens with the caller's email
AiChat_Personalised(authorization, req) ==
  LET auth == get_current_user(authorization)
      rq == [op |-> "ai_chat", authorization |-> authorization, req |-> req]
  IN  /\ last = Idle
      /\ IF auth.status # 200
         THEN last' = rq @@ auth
         ELSE last' = rq @@ Ok([prompt |-> auth.body.email \o ComposedPrompt(req),
                                outline |-> Outline(req)])
      /\ UNCHANGED << user, session, syllabus, issued, clock,
                      ticks, pending, registered, creator >>

\* ai_chat; the specification that takes the step says what earlier records
AiChat(authorization, req) ==
  LET auth == get_current_user(authorization)
      rq == [op |-> "ai_chat", authorization |-> authorization, req |-> req]
  IN  /\ last = Idle
      /\ IF auth.status # 200
         THEN last' = rq @@ auth
         ELSE last' = rq @@ Ok([prompt |-> ComposedPrompt(req),
                                outline |-> Outline(req)])
      /\ UNCHANGED << user, session, syllabus, issued, clock,
                      ticks, pending, registered, creator >>

\* the first ai_chat request answered 200 is kept, with its caller and the
\* number of users the store held
RecordChat ==
  earlier' = IF earlier = None /\ last'.status = 200
             THEN Some([req |-> last'.req,
                        caller |-> get_current_user(last'.authorization).body.id,
                        users |-> Len(user),
                        body |-> last'.body])
             ELSE earlier

(* ----------------------------- responses ------------------------------ *)
\* the response has reached the client; requests are answered one at a
\* time, and last holds a response only in the state right after its handler
Respond ==
  /\ last # Idle
  /\ last' = Idle
  /\ UNCHANGED << user, session, syllabus, issued, clock, ticks, pending,
                  registered, creator, earlier >>

(* --------------------------- specification ---------------------------- *)
\* a handler starts on a request only once the response before it is out
Next ==
  \/ last = Idle /\ Tick
  \/ last = Idle /\ \E w \in Workers, n \in Names, e \in Emails,
                        p \in RegPasswords : RegisterCheck(w, n, e, p)
  \/ last = Idle /\ \E w \in Workers : RegisterInsert(w)
  \/ last = Idle /\ \E e \in Emails, p \in Passwords : Login(e, p)
  \/ last = Idle /\ \E h \in Headers : Logout(h)
  \/ last = Idle /\ \E h \in Headers, b \in Bodies : CreateSyllabus(h, b)
  \/ last = Idle /\ \E h \in Headers : ListSyllabi(h)
  \/ last = Idle /\ \E h \in Headers, id \in PathIds : GetSyllabus(h, id)
  \/ last = Idle /\ \E h \in Headers, rq \in ChatRequests :
                        AiChat(h, rq) /\ UNCHANGED earlier
  \/ Respond

Spec == Init /\ [][Next]_vars

\* the outline generator over every ChatRequest body, for the users that
\* register can create
ChatNext ==
  \/ last = Idle /\ \E w \in Workers, n \in Names, e \in Emails,
                        p \in RegPasswords : RegisterCheck(w, n, e, p)
  \/ last = Idle /\ \E w \in Workers : RegisterInsert(w)
  \/ last = Idle /\ \E h \in Headers, rq \in AllChatRequests :
                        AiChat(h, rq) /\ UNCHANGED earlier
  \/ Respond

ChatSpec == Init /\ [][ChatNext]_vars

\* the outline generator with the first request answered 200 kept for
\* comparison with the later ones
ChatPairNext ==
  \/ last = Idle /\ \E w \in Workers, n \in Names, e \in Emails,
                        p \in RegPasswords : RegisterCheck(w, n, e, p)
  \/ last = Idle /\ \E w \in Workers : RegisterInsert(w)
  \/ last = Idle /\ \E h \in Headers, rq \in PairedChatRequests :
                        AiChat(h, rq) /\ RecordChat
  \/ Respond

ChatPairSpec == Init /\ [][ChatPairNext]_vars

\* the routes that read the Authorization header, over every header value,
\* for the sessions that register can create
HeaderNext ==
  \/ last = Idle /\ \E w \in Workers, n \in Names, e \in Emails,
                        p \in RegPasswords : RegisterCheck(w, n, e, p)
  \/ last = Idle /\ \E w \in Workers : RegisterInsert(w)
  \/ last = Idle /\ \E h \in AllHeaders : Logout(h)
  \/ last = Idle /\ \E h \in AllHeaders : ListSyllabi(h)
  \/ Respond

HeaderSpec == Init /\ [][HeaderNext]_vars

\* the routes that write or read sessions, with the two inserts of register
\* as separate steps that other requests run between
InsertNext ==
  \/ last = Idle /\ \E w \in Workers, n \in Names, e \in Emails,
                        p \in RegPasswords : RegisterCheck(w, n, e, p)
  \/ last = Idle /\ \E w \in Workers : RegisterInsertUser(w)
  \/ last = Idle /\ \E w \in Workers : RegisterInsertSession(w)
  \/ last = Idle /\ \E e \in Emails, p \in Passwords : Login(e, p)
  \/ last = Idle /\ \E h \in Headers : Logout(h)
  \/ last = Idle /\ \E h \in Headers : ListSyllabi(h)
  \/ Respond

InsertSpec == Init /\ [][InsertNext]_vars

(* ------------------------------ properties ---------------------------- *)
\* the step is the handler op answering a request
Answers(op) == last = Idle /\ last'.op = op

\* C6: logout never fails.  Whatever the Authorization header (absent,
\* empty, an unknown token, a valid token), logout answers 200 {ok: true};
\* when the header is absent or its token matches no session, the user,
\* session and syllabus collections are unchanged.
C6_LogoutNeverFails ==
  [][Answers("logout") =>
       /\ last'.status = 200
       /\ last'.body = [ok |-> TRUE]
       /\ LET h == last'.authorization
          IN  (h = None \/ SessionsWith(session, BearerToken(h[1])) = {})
                => db' = db]_vars

\* a logout with a token of no session was answered while sessions exist
C6_Witness ==
  /\ last.op = "logout"
  /\ last.authorization = Some(Bearer \o UnknownToken)
  /\ last.status = 200
  /\ session # << >>

\* the header authenticates
Authenticates(h) == get_current_user(h).status = 200

\* the id of the user a header authenticates as
Caller(h) == get_current_user(h).body.id

\* the stored syllabi whose identifier prints as id
WithIdStr(id) == { i \in DOMAIN syllabus : oid_str(syllabus[i].oid) = id }

\* C1: owner isolation.  A syllabus created by a request authenticated as
\* user A is in no list_syllabi result of another user B, and get_syllabus
\* by B with A's exact syllabus id answers 404, not 403 and not the document.
C1_OwnerIsolation ==
  /\ (last.op = "list_syllabi" /\ last.status = 200) =>
       \A k \in DOMAIN last.body : \A i \in WithIdStr(last.body[k].id) :
         creator[i] = Caller(last.authorization)
  /\ (last.op = "get_syllabus" /\ Authenticates(last.authorization)) =>
       \A i \in WithIdStr(last.syllabus_id) :
         creator[i] # Caller(last.authorization) =>
           last.status = 404 /\ last.body = None

\* user B asked for the exact id of a syllabus user A created and got 404
C1_Witness ==
  /\ last.op = "get_syllabus"
  /\ last.status = 404
  /\ Authenticates(last.authorization)
  /\ \E i \in WithIdStr(last.syllabus_id) :
       creator[i] # Caller(last.authorization)

\* the step issues a register request with email e: its existence check runs
IssuesRegister(e) ==
  /\ last = Idle
  /\ \/ pending' = pending /\ last'.op = "register" /\ last'.email = e
     \/ \E w \in Workers :
          pending[w] = None /\ pending'[w] # None /\ pending'[w][1].email = e

\* the successful registrations whose email equals e up to letter case
RegisteredAs(e) == { r \in registered : Lower(r.email) = Lower(e) }

\* C3: a register request issued after a register with a case-insensitively
\* equal email has completed fails with 400 "Email already registered" and
\* inserts neither a user nor a session; login, too, takes emails that
\* differ only in letter case as the same: it succeeds only for a registered
\* user whose email equals the given one up to case, and it succeeds for the
\* right password of the one user registered under a case variant.
C3_DuplicateEmailRejected ==
  [][/\ \A e \in Emails :
          (IssuesRegister(e) /\ RegisteredAs(e) # {}) =>
             /\ last'.op = "register"
             /\ last'.status = 400
             /\ last'.detail = "Email already registered"
             /\ user' = user
             /\ session' = session
     /\ Answers("login") =>
          /\ last'.status = 200 =>
               \E r \in RegisteredAs(last'.email) :
                 r.password = last'.password /\ r.id = last'.body.user.id
          /\ \A r \in RegisteredAs(last'.email) :
               (RegisteredAs(last'.email) = { r }
                  /\ r.password = last'.password) => last'.status = 200]_vars

\* a register with a case variant of a registered email was answered 400
C3_Witness ==
  /\ last.op = "register"
  /\ last.status = 400
  /\ \E r \in registered :
       r.email # last.email /\ Lower(r.email) = Lower(last.email)

\* the handlers behind the auth dependency
GuardedOps == { "create_syllabus", "list_syllabi", "get_syllabus", "ai_chat" }

\* get_current_user has no session and user to resolve the header to
Unauthenticated(h) ==
  \/ h = None
  \/ SessionsWith(session, BearerToken(h[1])) = {}
  \/ \E i \in SessionsWith(session, BearerToken(h[1])) :
       FindById(user, ObjectId(session[i].user_id)) = {}

\* C4: a request to POST /syllabi, GET /syllabi, GET /syllabi/{id} or
\* POST /ai/chat with no Authorization header, with a token of no session,
\* or with a session of no user is answered 401 with no route result, and
\* the user, session and syllabus collections are unchanged.
C4_UnauthenticatedRejected ==
  [][\A op \in GuardedOps :
       (Answers(op) /\ Unauthenticated(last'.authorization)) =>
          /\ last'.status = 401
          /\ last'.body = None
          /\ db' = db]_vars

\* a create with a token of no session was answered 401
C4_Witness ==
  /\ last.op = "create_syllabus"
  /\ last.status = 401
  /\ last.authorization = Some(Bearer \o UnknownToken)
  /\ user # << >>

\* C5: after logout with a token no session document has that token; a
\* token that was issued and has no session never has one again, and no
\* header carrying it authenticates; the sessions with any other token,
\* those of the same user included, are unchanged and authenticate as
\* before.
C5_LogoutRevokes ==
  [][/\ (Answers("logout") /\ last'.authorization # None
                          /\ last'.authorization # Some(<< >>)) =>
          LET token == BearerToken(last'.authorization[1])
          IN  /\ SessionsWith(session', token) = {}
              /\ \A i \in DOMAIN session :
                   session[i].token # token =>
                     /\ \E j \in DOMAIN session' : session'[j] = session[i]
                     /\ CurrentUserIn(Some(Bearer \o session[i].token),
                                      session', user')
                          = get_current_user(Some(Bearer \o session[i].token))
                     /\ Authenticates(Some(Bearer \o session[i].token))
     /\ \A t \in issued :
          SessionsWith(session, t) = {} =>
            /\ SessionsWith(session', t) = {}
            /\ \A h \in { Some(Bearer \o t), Some(t) } :
                 CurrentUserIn(h, session', user').status = 401]_vars

\* a logout deleted the session of an issued token while another session
\* of the same user stays
C5_Witness ==
  /\ last.op = "logout"
  /\ last.authorization # None
  /\ last.authorization # Some(<< >>)
  /\ BearerToken(last.authorization[1]) \in issued
  /\ Len(user) = 1
  /\ Len(session) = 1
  /\ Cardinality(issued) = 2

\* C7: login is additive.  A successful login appends exactly one session
\* document and leaves every earlier one as it was, so every header that
\* authenticated before the login authenticates as the same user after it.
C7_LoginAdditive ==
  [][(Answers("login") /\ last'.status = 200) =>
       /\ Len(session') = Len(session) + 1
       /\ SubSeq(session', 1, Len(session)) = session
       /\ session'[Len(session')].token = last'.body.token
       /\ \A h \in Headers :
            Authenticates(h) =>
              CurrentUserIn(h, session', user') = get_current_user(h)]_vars

\* a login succeeded while an earlier session exists
C7_Witness ==
  /\ last.op = "login"
  /\ last.status = 200
  /\ Len(session) = 2

\* C2: for every registration that succeeded with (email, password), a
\* later login with the same email and password succeeds and returns a
\* token that get_current_user resolves to that registered user; a login
\* with that email and any other password fails with 400 "Invalid
\* credentials" and inserts no session.
C2_LoginAfterRegister ==
  [][Answers("login") =>
       \A r \in registered :
         r.email = last'.email =>
           IF r.password = last'.password
           THEN /\ last'.status = 200
                /\ LET a == CurrentUserIn(Some(Bearer \o last'.body.token),
                                          session', user')
                   IN  a.status = 200 /\ a.body.id = r.id
           ELSE /\ last'.status = 400
                /\ last'.detail = "Invalid credentials"
                /\ session' = session]_vars

\* C8: for an authenticated caller and every syllabus_id, well formed or
\* not, get_syllabus answers 404 when no syllabus document has both that id
\* and the caller as owner, and returns the document only when both match.
C8_NotFoundForEveryId ==
  (last.op = "get_syllabus" /\ Authenticates(last.authorization)) =>
    LET mine == { i \in WithIdStr(last.syllabus_id) :
                    syllabus[i].owner_id = Caller(last.authorization) }
    IN  /\ mine = {} => last.status = 404
        /\ last.status = 200 =>
             \E i \in mine : last.body = SyllabusResponse(syllabus[i])

\* the stored syllabus the k-th entry of a list_syllabi result stands for
Listed(k) == CHOOSE i \in DOMAIN syllabus :
               oid_str(syllabus[i].oid) = last.body[k].id

\* a list_syllabi result holds exactly the caller's syllabi, each once
ListsExactlyOwned ==
  LET owned == FindByOwner(syllabus, Caller(last.authorization))
  IN  /\ Len(last.body) = Cardinality(owned)
      /\ \A i \in owned :
           \E k \in DOMAIN last.body :
             last.body[k] = SyllabusResponse(syllabus[i])
      /\ \A k \in DOMAIN last.body : WithIdStr(last.body[k].id) \subseteq owned
      /\ owned = {} => last.body = << >>

\* C9 as stated: list_syllabi returns exactly the caller's syllabi, each
\* once, ordered by created_at non-increasing, and a syllabus created later
\* never appears after one created earlier; an empty sequence with a
\* success status for a caller who owns none.
C9_ListNewestFirst ==
  (last.op = "list_syllabi" /\ Authenticates(last.authorization)) =>
    /\ last.status = 200
    /\ ListsExactlyOwned
    /\ \A k, l \in DOMAIN last.body :
         k < l => /\ ~TimeLess(syllabus[Listed(k)].created_at,
                               syllabus[Listed(l)].created_at)
                  /\ Listed(k) > Listed(l)

\* C9 as amended: list_syllabi returns exactly the caller's syllabi, each
\* once, ordered by created_at non-increasing: a syllabus with a later
\* created_at never appears after one with an earlier created_at, and
\* syllabi with equal created_at come in either order; an empty sequence
\* with a success status for a caller who owns none.
C9_ListSortedByCreatedAt ==
  (last.op = "list_syllabi" /\ Authenticates(last.authorization)) =>
    /\ last.status = 200
    /\ ListsExactlyOwned
    /\ \A k, l \in DOMAIN last.body :
         k < l => ~TimeLess(syllabus[Listed(k)].created_at,
                            syllabus[Listed(l)].created_at)

\* a list of two syllabi created at different times was returned
C9_Witness ==
  /\ last.op = "list_syllabi"
  /\ last.status = 200
  /\ Len(last.body) = 2
  /\ last.body[1].created_at # last.body[2].created_at

\* the length of s without its leading and trailing whitespace, stated
\* without str.strip: the length of the one slice of s that neither starts
\* nor ends with whitespace and has nothing but whitespace around it
TrimmedLen(s) ==
  CHOOSE k \in 0..Len(s) :
    \E a \in 0..(Len(s) - k) :
      /\ \A i \in 1..a : s[i] \in Whitespace
      /\ \A i \in (a + k + 1)..Len(s) : s[i] \in Whitespace
      /\ k > 0 => (s[a + 1] \notin Whitespace /\ s[a + k] \notin Whitespace)

\* an Optional string, None taken as the empty string
TextOf(x) == IF x = None THEN << >> ELSE x[1]

\* C10: for every ai_chat request, with n the length of the trimmed
\* concatenation course_title + subject + level (absent fields as empty
\* strings), the outline has max(8, min(12, 4 + (n mod 9))) entries, a
\* number in 8..12 that is 8 exactly when n mod 9 <= 4 and 12 exactly when
\* n mod 9 = 8, and entry i (0-based) is "Week {i+1}: Topic derived from
\* '{course_title}' - Part {i+1}".
C10_OutlineCount ==
  (last.op = "ai_chat" /\ last.status = 200) =>
    LET req == last.req
        n == TrimmedLen(req.course_title \o TextOf(req.subject)
                          \o TextOf(req.level))
        m == n % 9
        outline == last.body.outline
    IN  /\ Len(outline) = (IF 4 + m > 12 THEN 12 ELSE IF 4 + m < 8 THEN 8
                                                 ELSE 4 + m)
        /\ Len(outline) \in 8..12
        /\ Len(outline) = 8 <=> m <= 4
        /\ Len(outline) = 12 <=> m = 8
        /\ \A i \in 0..(Len(outline) - 1) :
             outline[i + 1] =
               <<"Week ">> \o IntStr(i + 1) \o <<": Topic derived from '">>
                 \o req.course_title \o <<"' - Part ">> \o IntStr(i + 1)

\* an outline of 12 weeks was returned for a title with leading whitespace
\* and a level with trailing whitespace
C10_Witness ==
  /\ last.op = "ai_chat"
  /\ last.status = 200
  /\ Len(last.body.outline) = 12
  /\ last.req.course_title = <<" ">> \o Rep("x", 5)
  /\ last.req.level = Some(<<"l", " ">>)

\* the fields of a ChatRequest the outline is computed from
OutlineInputs(req) == << req.course_title, req.subject, req.level >>

\* C11: outline generation is deterministic and store-independent.  An
\* ai_chat request answered 200 gets the prompt and the outline an identical
\* request got earlier, whoever the two callers are and whatever the store
\* held; requests equal in (course_title, subject, level) get the same
\* outline; and ai_chat leaves the user, session and syllabus collections
\* unchanged.
C11_ChatDeterministic ==
  [][Answers("ai_chat") =>
       /\ db' = db
       /\ (last'.status = 200 /\ earlier # None) =>
            /\ earlier[1].req = last'.req => earlier[1].body = last'.body
            /\ OutlineInputs(earlier[1].req) = OutlineInputs(last'.req)
                 => earlier[1].body.outline = last'.body.outline]_vars

\* a request was answered as the identical request of another caller was
\* when the store held fewer users
C11_Witness ==
  /\ last.op = "ai_chat"
  /\ last.status = 200
  /\ earlier # None
  /\ earlier[1].req = last.req
  /\ earlier[1].body = last.body
  /\ earlier[1].caller # Caller(last.authorization)
  /\ earlier[1].users < Len(user)

\* the step is worker w's register request doing its inserts
Inserts(w) == last = Idle /\ pending[w] # None /\ pending'[w] = None

\* C12: registration race.  The existence check of register sees stored
\* users only, so a request passes it while another request with the same
\* lowercased email is between its check and its insert; and a request that
\* has passed the check inserts its user and its session and answers 200
\* with a token, whatever was inserted since.  Two user documents sharing
\* one email are reachable (C12_Witness).
C12_RegistrationRace ==
  [][/\ \A e \in Emails :
          (IssuesRegister(e) /\ FindByEmail(user, Lower(e)) = {}) =>
             \E w \in Workers :
               /\ pending[w] = None
               /\ pending'[w] # None
               /\ pending'[w][1].email = e
               /\ last' = Idle
     /\ \A w \in Workers :
          Inserts(w) =>
            /\ last'.op = "register"
            /\ last'.status = 200
            /\ last'.body.token \notin issued
            /\ Len(user') = Len(user) + 1
            /\ SubSeq(user', 1, Len(user)) = user
            /\ user'[Len(user')].email = Lower(pending[w][1].email)
            /\ oid_str(user'[Len(user')].oid) = last'.body.user.id
            /\ Len(session') = Len(session) + 1
            /\ session'[Len(session')].token = last'.body.token
            /\ session'[Len(session')].user_id = last'.body.user.id]_vars

\* two register requests with one lowercased email were both answered 200,
\* and two user documents share that email
C12_Witness ==
  /\ last.op = "register"
  /\ last.status = 200
  /\ Len(user) = 2
  /\ user[1].email = user[2].email
  /\ user[1].oid # user[2].oid
  /\ \E r1, r2 \in registered :
       /\ r1.id # r2.id
       /\ Lower(r1.email) = Lower(r2.email)
       /\ r1.email # r2.email

\* the session document is past its expires_at
Expired(sd) == TimeLess(sd.expires_at, now)

\* points in time an expires_at could hold
ExpiryTimes == { << 0, 0 >>, now, AddDays(now, SessionDays) }

\* C13: session expiry is never enforced.  After every step that changes
\* the store or the clock each session document authenticates as its user,
\* past its expires_at or not, and
\* get_current_user gives the same result whatever expires_at holds; a
\* guarded request presenting the token of a stored session is never
\* answered 401; and a session document stays in the collection until a
\* logout with its token deletes it.
C13_ExpiryNotEnforced ==
  [][/\ (db' # db \/ clock' # clock) =>
          \A i \in DOMAIN session' :
            LET h == Some(Bearer \o session'[i].token)
                a == CurrentUserIn(h, session', user')
            IN  /\ a.status = 200
                /\ a.body.id = session'[i].user_id
                /\ \A t \in ExpiryTimes' :
                     CurrentUserIn(h, [session' EXCEPT ![i].expires_at = t],
                                   user') = a
     /\ \A op \in GuardedOps :
          (Answers(op) /\ last'.authorization # None
                      /\ SessionsWith(session,
                                      BearerToken(last'.authorization[1])) # {})
            => last'.status # 401
     /\ \A i \in DOMAIN session :
          (\A j \in DOMAIN session' : session'[j] # session[i]) =>
            /\ Answers("logout")
            /\ last'.authorization # None
            /\ BearerToken(last'.authorization[1]) = session[i].token]_vars

\* a list request with the token of a session past its expires_at was
\* answered 200
C13_Witness ==
  /\ last.op = "list_syllabi"
  /\ last.status = 200
  /\ \E i \in SessionsWith(session, BearerToken(last.authorization[1])) :
       Expired(session[i])

\* the user documents whose identifier prints as id
UsersWithId(id) == { i \in DOMAIN user : oid_str(user[i].oid) = id }

\* C14: each syllabus document has exactly one owner_id, the id of the user
\* the bearer token of the creating request resolved to: a successful
\* create_syllabus appends one document whose owner_id is the user_id of
\* the session the token belongs to, whatever the body holds, an owner_id
\* field included; the owner_id of a stored document names exactly one
\* user and never changes.
C14_OwnerFromToken ==
  [][/\ (Answers("create_syllabus") /\ last'.status = 200) =>
          /\ Len(syllabus') = Len(syllabus) + 1
          /\ LET d == syllabus'[Len(syllabus')]
                 ss == SessionsWith(session,
                                    BearerToken(last'.authorization[1]))
             IN  /\ ss # {}
                 /\ \A i \in ss : d.owner_id = session[i].user_id
                 /\ last'.body.id = oid_str(d.oid)
     /\ \A i \in DOMAIN syllabus :
          /\ i \in DOMAIN syllabus'
          /\ syllabus'[i].owner_id = syllabus[i].owner_id
          /\ syllabus[i].owner_id = creator[i]
          /\ Cardinality(UsersWithId(syllabus[i].owner_id)) = 1]_vars

\* the second user created a syllabus with a body whose owner_id names the
\* first user, and owns it
C14_Witness ==
  /\ last.op = "create_syllabus"
  /\ last.status = 200
  /\ "owner_id" \in DOMAIN last.json
  /\ Len(user) = 2
  /\ last.json.owner_id = oid_str(user[1].oid)
  /\ syllabus[Len(syllabus)].owner_id = oid_str(user[2].oid)

\* the stored users with the email, and those of them the password fits
UsersByEmail(email) == FindByEmail(user, Lower(email))
UsersByCredentials(email, password) ==
  { i \in UsersByEmail(email) :
      Sha256Hex(user[i].password_salt \o password) = user[i].password_hash }

\* C15: login failures are indistinguishable.  A login with an email of no
\* user and a login with a registered email and a password that fits none
\* of its users get the same answer, status 400 with detail "Invalid
\* credentials" and no body, and leave the user, session and syllabus
\* collections unchanged; login has no other failure.
C15_LoginFailuresAlike ==
  [][Answers("login") =>
       LET failure == [status |-> 400, detail |-> "Invalid credentials",
                       body |-> None]
           answer == [f \in { "status", "detail", "body" } |-> last'[f]]
       IN  /\ UsersByEmail(last'.email) = {} =>
                (answer = failure /\ db' = db)
           /\ (/\ UsersByEmail(last'.email) # {}
               /\ UsersByCredentials(last'.email, last'.password) = {}) =>
                (answer = failure /\ db' = db)
           /\ last'.status # 200 => (answer = failure /\ db' = db)]_vars

\* a login with a registered email and a wrong password was answered 400
C15_Witness ==
  /\ last.op = "login"
  /\ last.status = 400
  /\ last.detail = "Invalid credentials"
  /\ UsersByEmail(last.email) # {}
  /\ UsersByCredentials(last.email, last.password) = {}
  /\ session # << >>

\* the token C16 names for a non-empty header value: the value without its
\* leading "Bearer " when it starts with one, else the value trimmed
PrefixToken(v) ==
  IF Len(v) >= Len(Bearer) /\ SubSeq(v, 1, Len(Bearer)) = Bearer
  THEN SubSeq(v, Len(Bearer) + 1, Len(v))
  ELSE Strip(v)

\* C16: bearer extraction in get_current_user and logout.  For every
\* non-empty Authorization header value the session is looked up by the
\* value without its leading "Bearer " prefix when it starts with the
\* prefix, and else by the raw value trimmed, nothing inside removed: a
\* guarded request authenticates exactly when a session holds that token,
\* and logout deletes exactly the sessions holding it.
C16_BearerExtraction ==
  [][/\ (Answers("list_syllabi") /\ last'.authorization # None
                                 /\ last'.authorization # Some(<< >>)) =>
          (last'.status = 200 <=>
             SessionsWith(session, PrefixToken(last'.authorization[1])) # {})
     /\ (Answers("logout") /\ last'.authorization # None
                           /\ last'.authorization # Some(<< >>)) =>
          session' = DeleteMany(session, PrefixToken(last'.authorization[1]))
    ]_vars

\* every document of coll is in coll2 at its place, field by field
KeptIn(coll, coll2) ==
  \A i \in DOMAIN coll : i \in DOMAIN coll2 /\ coll2[i] = coll[i]

\* C17: persistence of users and syllabi.  No step modifies or deletes a
\* user or syllabus document; the user collection changes only by the one
\* document a successful register appends, the syllabus collection only by
\* the one document an authenticated create_syllabus appends, and session
\* documents are removed by logout only.
C17_UsersAndSyllabiPersist ==
  [][/\ KeptIn(user, user')
     /\ KeptIn(syllabus, syllabus')
     /\ user' # user =>
          /\ Answers("register")
          /\ last'.status = 200
          /\ Len(user') = Len(user) + 1
     /\ syllabus' # syllabus =>
          /\ Answers("create_syllabus")
          /\ last'.status = 200
          /\ Authenticates(last'.authorization)
          /\ Len(syllabus') = Len(syllabus) + 1
     /\ (\E i \in DOMAIN session :
           \A j \in DOMAIN session' : session'[j] # session[i])
          => Answers("logout")]_vars

\* a second user registered and a second syllabus was created, and the
\* first of each is stored as it was
C17_Witness ==
  /\ last.op = "create_syllabus"
  /\ last.status = 200
  /\ Len(user) = 2
  /\ Len(syllabus) = 2
  /\ user[1].email = user[2].email
  /\ TimeLess(syllabus[1].created_at, syllabus[2].created_at)

\* C18: referential integrity of sessions.  In every reachable state,
\* between the two inserts of a register request too, the user_id of every
\* session document is the id of a stored user, every header carrying a
\* stored session's token authenticates as that user, and no request is
\* answered 401 "User not found".
C18_SessionsReferToUsers ==
  /\ \A i \in DOMAIN session :
       /\ UsersWithId(session[i].user_id) # {}
       /\ LET a == get_current_user(Some(Bearer \o session[i].token))
          IN  a.status = 200 /\ a.body.id = session[i].user_id
  /\ last.detail # "User not found"

\* a login inserted a session for a user whose register request has not
\* inserted its own session yet
C18_Witness ==
  /\ last.op = "login"
  /\ last.status = 200
  /\ \E w \in Workers :
       /\ pending[w] # None
       /\ "user_id" \in DOMAIN pending[w][1]
       /\ pending[w][1].user_id = last.body.user.id
       /\ \E i \in DOMAIN session : session[i].user_id = pending[w][1].user_id

\* C19: token binding.  With fresh tokens never colliding, at most one
\* session document holds a given token; the token a register or login
\* answers with is new, and get_current_user resolves it to the user the
\* answer names: for register the user stored under the request's lowercased
\* email that no session referred to before, for login a user stored under
\* that email whose hash the password fits; and a stored session's token
\* resolves to the same user after every step.
C19_TokenBinding ==
  [][/\ \A i, j \in DOMAIN session' :
          session'[i].token = session'[j].token => i = j
     /\ \A op \in { "register", "login" } :
          (Answers(op) /\ last'.status = 200) =>
            LET token == last'.body.token
                a == CurrentUserIn(Some(Bearer \o token), session', user')
                us == { i \in DOMAIN user' : oid_str(user'[i].oid) = a.body.id }
            IN  /\ token \notin issued
                /\ SessionsWith(session, token) = {}
                /\ Cardinality(SessionsWith(session', token)) = 1
                /\ a.status = 200
                /\ a.body.id = last'.body.user.id
                /\ Cardinality(us) = 1
                /\ \A i \in us :
                     /\ user'[i].email = Lower(last'.email)
                     /\ op = "register" =>
                          \A k \in DOMAIN session :
                            session[k].user_id # a.body.id
                     /\ op = "login" =>
                          i \in UsersByCredentials(last'.email,
                                                   last'.password)
     /\ db' # db =>
          \A i \in DOMAIN session, j \in DOMAIN session' :
            session'[j].token = session[i].token =>
              CurrentUserIn(Some(Bearer \o session[i].token), session', user')
                = get_current_user(Some(Bearer \o session[i].token))]_vars

\* a login with an email two users are stored under was answered with a
\* token that resolves to the second of them
C19_Witness ==
  /\ last.op = "login"
  /\ last.status = 200
  /\ Len(user) = 2
  /\ user[1].email = user[2].email
  /\ get_current_user(Some(Bearer \o last.body.token)).body.id
       = oid_str(user[2].oid)

====
